---- MODULE Spec2Model ----
(***************************************************************************)
(* Fast-Fonts: the calt rule list of make_fast_font.py / generate_fonts.py *)
(* run over a word, the bold-variant synthesis add_bold_glyphs, and the    *)
(* two command-line pipelines (make_fast_font.main, generate_fonts.main).  *)
(***************************************************************************)
EXTENDS Integers, Sequences, FiniteSets, TLC

VARIABLES
    script,     \* which script's feature text is installed
    rules,      \* the statements of the installed calt lookup, in listed order
    glyphs,     \* the glyph buffer being shaped, one glyph class per glyph
    pos,        \* 1-based index of the glyph the lookup is applied at next
    matched,    \* matched[i]: index of the statement that decided glyph i, 0 if none
    regular_cmap,   \* font.getBestCmap(): code point -> glyph name
    bold_cmap,      \* bold_font.getBestCmap()
    glyf,           \* font['glyf']: glyph name -> outline
    bold_glyf,      \* bold_font['glyf']
    hmtx,           \* font['hmtx'].metrics: glyph name -> metric
    bold_hmtx,      \* bold_font['hmtx'].metrics
    loaded,         \* the four tables as they were when the fonts were loaded
    calls,          \* one record per finished call of add_bold_glyphs
    pc,             \* where main() stands
    args,           \* the parsed command line flags
    has_name,       \* 'name' in font
    names,          \* font['name'].names of the font being built
    base_names,     \* the name records of the font file given on the command line
    saved,          \* the font files written: variant -> what was saved
    out,            \* the messages printed
    exit_status,    \* the process's exit status, -1 while it runs
    feature_result  \* "none", "added" or "failed": the outcome of addOpenTypeFeatures

caltVars == <<script, rules, glyphs, pos, matched>>

fontVars == <<regular_cmap, bold_cmap, glyf, bold_glyf, hmtx, bold_hmtx, loaded, calls>>

mainVars == <<pc, args, has_name, names, base_names, saved, out, exit_status,
              feature_result>>

vars == <<script, rules, glyphs, pos, matched,
          regular_cmap, bold_cmap, glyf, bold_glyf, hmtx, bold_hmtx, loaded, calls,
          pc, args, has_name, names, base_names, saved, out, exit_status,
          feature_result>>

(***************************************************************************)
(* Bounds                                                                  *)
(***************************************************************************)
MaxWordLen == 30

\* how many letters (the first of chars) the fonts may lack or share
MaxVary == 2

\* how often add_bold_glyphs is run on the same pair of fonts
MaxRuns == 2

\* how many pieces a name string of the font file is put together from
MaxNameChunks == 2

(***************************************************************************)
(* Glyph classes of the feature text                                       *)
(***************************************************************************)
\* @az = [a-z A-Z];
ClassAz == {"az"}

\* @AZ = [a.bold-z.bold A.bold-Z.bold];
ClassAZ == {"AZ"}

\* @all = [@az @AZ];
ClassAll == ClassAz \cup ClassAZ

\* the glyphs a class name of a statement stands for
ClassOf(name) ==
    CASE name = "@az"  -> ClassAz
      [] name = "@AZ"  -> ClassAZ
      [] name = "@all" -> ClassAll

Rep(x, n) == [i \in 1..n |-> x]

\* `ignore sub <back x @all> @az' <look x @all>;`
IgnoreSub(back, look) ==
    [kind |-> "ignore", mark |-> back + 1, by |-> "@az",
     pattern |-> Rep("@all", back) \o <<"@az">> \o Rep("@all", look)]

\* the same statement written with one glyph of lookahead too few
SubBy_shortLook(back, look) ==
    [kind |-> "sub", mark |-> back + 1, by |-> "@AZ",
     pattern |-> Rep("@all", back) \o <<"@az">> \o Rep("@all", look - 1)]

\* `sub <back x @all> @az' <look x @all> by @AZ;`
SubBy(back, look) ==
    [kind |-> "sub", mark |-> back + 1, by |-> "@AZ",
     pattern |-> Rep("@all", back) \o <<"@az">> \o Rep("@all", look)]

\* a variant of the text in which the 7-8 tier's rule looks one glyph less ahead
make_fast_font_features_short3 ==
    << IgnoreSub(7, 10), SubBy(6, 10),
       IgnoreSub(6, 8),  SubBy(5, 8),
       IgnoreSub(5, 6),  SubBy(4, 7),
       IgnoreSub(4, 5),  SubBy(3, 5),
       IgnoreSub(3, 4),  SubBy(2, 3),
       IgnoreSub(2, 2),  SubBy(1, 2),
       IgnoreSub(1, 0),  SubBy(0, 0) >>

\* a variant of the text that lists the tiers from the shortest to the longest
make_fast_font_features_shortestFirst ==
    << IgnoreSub(1, 0),  SubBy(0, 0),
       IgnoreSub(2, 2),  SubBy(1, 2),
       IgnoreSub(3, 4),  SubBy(2, 4),
       IgnoreSub(4, 5),  SubBy(3, 5),
       IgnoreSub(5, 6),  SubBy(4, 7),
       IgnoreSub(6, 8),  SubBy(5, 8),
       IgnoreSub(7, 10), SubBy(6, 10) >>

\* the 14 statements of make_fast_font_features, in listed order
make_fast_font_features ==
    << IgnoreSub(7, 10), SubBy(6, 10),     \* 17+ character words (7 chars bold)
       IgnoreSub(6, 8),  SubBy(5, 8),      \* 14-16 character words (6 chars bold)
       IgnoreSub(5, 6),  SubBy(4, 7),      \* 12-13 character words (5 chars bold)
       IgnoreSub(4, 5),  SubBy(3, 5),      \* 9-11 character words (4 chars bold)
       IgnoreSub(3, 4),  SubBy(2, 4),      \* 7-8 character words (3 chars bold)
       IgnoreSub(2, 2),  SubBy(1, 2),      \* 4-6 character words (2 chars bold)
       IgnoreSub(1, 0),  SubBy(0, 0) >>    \* 1-3 character words (1 char bold)

\* a variant of the text whose 9-11 tier lists its substitution before its exclusion
create_fast_reading_feature_swapped ==
    << IgnoreSub(7, 10), SubBy(6, 10),
       IgnoreSub(6, 8),  SubBy(5, 8),
       IgnoreSub(5, 6),  SubBy(4, 7),
       SubBy(3, 5),      IgnoreSub(4, 5),
       IgnoreSub(3, 4),  SubBy(2, 4),
       IgnoreSub(2, 2),  SubBy(1, 2),
       IgnoreSub(1, 0),  SubBy(0, 0) >>

\* the 14 statements of FastFontGenerator.create_fast_reading_feature
create_fast_reading_feature ==
    << IgnoreSub(7, 10), SubBy(6, 10),
       IgnoreSub(6, 8),  SubBy(5, 8),
       IgnoreSub(5, 6),  SubBy(4, 7),
       IgnoreSub(4, 5),  SubBy(3, 5),
       IgnoreSub(3, 4),  SubBy(2, 4),
       IgnoreSub(2, 2),  SubBy(1, 2),
       IgnoreSub(1, 0),  SubBy(0, 0) >>

\* the length tiers the comments of the feature text announce, longest first
\* (maxLen 0: no upper end)
Tiers ==
    << [minLen |-> 17, maxLen |-> 0,  boldCount |-> 7],
       [minLen |-> 14, maxLen |-> 16, boldCount |-> 6],
       [minLen |-> 12, maxLen |-> 13, boldCount |-> 5],
       [minLen |-> 9,  maxLen |-> 11, boldCount |-> 4],
       [minLen |-> 7,  maxLen |-> 8,  boldCount |-> 3],
       [minLen |-> 4,  maxLen |-> 6,  boldCount |-> 2],
       [minLen |-> 1,  maxLen |-> 3,  boldCount |-> 1] >>

\* statement i of the text belongs to the tier under whose comment it stands
TierOfStmt(i) == (i + 1) \div 2

\* the tier whose announced length range contains n
TierOfLen(n) ==
    CHOOSE t \in 1..Len(Tiers) :
        /\ Tiers[t].minLen <= n
        /\ (Tiers[t].maxLen = 0 \/ n <= Tiers[t].maxLen)

(***************************************************************************)
(* The lookup applied to a buffer                                          *)
(***************************************************************************)
\* statement r matches with its marked glyph at buffer index p
Matches(r, buf, p) ==
    \A k \in 1..Len(r.pattern) :
        LET j == p - r.mark + k IN
        /\ j >= 1
        /\ j <= Len(buf)
        /\ buf[j] \in ClassOf(r.pattern[k])

\* index of the first statement, in listed order, that matches at p; 0 if none
FirstMatch(rs, buf, p) ==
    IF \E i \in 1..Len(rs) : Matches(rs[i], buf, p)
    THEN CHOOSE i \in 1..Len(rs) :
            /\ Matches(rs[i], buf, p)
            /\ \A j \in 1..(i - 1) : ~Matches(rs[j], buf, p)
    ELSE 0

\* the glyph a substitution puts in place of a glyph of @az
Substitute(r) == CHOOSE g \in ClassOf(r.by) : TRUE

\* the buffer after the lookup has been applied at p
ApplyAt(rs, buf, p) ==
    LET i == FirstMatch(rs, buf, p) IN
    IF i > 0 /\ rs[i].kind = "sub"
    THEN [buf EXCEPT ![p] = Substitute(rs[i])]
    ELSE buf

\* the buffer after the lookup has been applied at p, p+1, ..., left to right
RECURSIVE RunLookup(_, _, _)
RunLookup(rs, buf, p) ==
    IF p > Len(buf) THEN buf ELSE RunLookup(rs, ApplyAt(rs, buf, p), p + 1)

\* a word of n letters flanked by non-letters
Word(n) == <<"other">> \o Rep("az", n) \o <<"other">>

WordLen == Len(glyphs) - 2

CaltDone == pos > Len(glyphs)

\* no font is loaded
NoFonts ==
    /\ regular_cmap = <<>>
    /\ bold_cmap = <<>>
    /\ glyf = <<>>
    /\ bold_glyf = <<>>
    /\ hmtx = <<>>
    /\ bold_hmtx = <<>>
    /\ loaded = <<>>
    /\ calls = <<>>

NoArgs == [info |-> FALSE, fast |-> FALSE, dotted |-> FALSE, all |-> FALSE]

\* no script is running
NoMain ==
    /\ pc = "idle"
    /\ args = NoArgs
    /\ has_name = FALSE
    /\ names = <<>>
    /\ base_names = <<>>
    /\ saved = <<>>
    /\ out = {}
    /\ exit_status = -1
    /\ feature_result = "none"

InitWord ==
    /\ \E n \in 1..MaxWordLen : glyphs = Word(n)
    /\ pos = 1
    /\ matched = <<>>
    /\ NoFonts
    /\ NoMain

InitCalt ==
    /\ \/ script = "make_fast_font" /\ rules = make_fast_font_features
       \/ script = "generate_fonts" /\ rules = create_fast_reading_feature
    /\ InitWord

\* no statement matches at pos: the glyph stays and the engine moves on
NoMatch ==
    /\ ~CaltDone
    /\ FirstMatch(rules, glyphs, pos) = 0
    /\ matched' = Append(matched, 0)
    /\ pos' = pos + 1
    /\ glyphs' = ApplyAt(rules, glyphs, pos)
    /\ UNCHANGED <<script, rules, fontVars, mainVars>>

\* an `ignore sub` statement is the first match: the glyph stays
IgnoreMatch ==
    /\ ~CaltDone
    /\ LET i == FirstMatch(rules, glyphs, pos) IN
        /\ i > 0
        /\ rules[i].kind = "ignore"
        /\ matched' = Append(matched, i)
    /\ pos' = pos + 1
    /\ glyphs' = ApplyAt(rules, glyphs, pos)
    /\ UNCHANGED <<script, rules, fontVars, mainVars>>

\* a `sub ... by @AZ` statement is the first match: the marked glyph is replaced
SubMatch ==
    /\ ~CaltDone
    /\ LET i == FirstMatch(rules, glyphs, pos) IN
        /\ i > 0
        /\ rules[i].kind = "sub"
        /\ matched' = Append(matched, i)
    /\ glyphs' = ApplyAt(rules, glyphs, pos)
    /\ pos' = pos + 1
    /\ UNCHANGED <<script, rules, fontVars, mainVars>>

NextCalt == NoMatch \/ IgnoreMatch \/ SubMatch

SpecCalt == InitCalt /\ [][NextCalt]_vars

\* letters of the word (0-based offsets) that are emphasized / base
Emphasized == {k \in 0..(WordLen - 1) : glyphs[k + 2] \in ClassAZ}

\* (statement, 0-based offset) of every substitution that fired
FiredSubs ==
    {<<matched[j], j - 2>> : j \in {x \in 1..Len(matched) :
                                      matched[x] > 0 /\ rules[matched[x]].kind = "sub"}}

\* number of emphasized glyphs in a buffer
BoldCount(buf) == Cardinality({j \in 1..Len(buf) : buf[j] \in ClassAZ})

(***************************************************************************)
(* The same statements listed shortest tier first, each pair kept          *)
(* exclusion-then-substitution                                             *)
(***************************************************************************)
ReverseTierOrder(rs) ==
    [i \in 1..Len(rs) |->
        rs[2 * ((Len(rs) \div 2) - TierOfStmt(i)) + (IF i % 2 = 1 THEN 1 ELSE 2)]]

InitReversed ==
    /\ \/ script = "make_fast_font"
          /\ rules = ReverseTierOrder(make_fast_font_features)
       \/ script = "generate_fonts"
          /\ rules = ReverseTierOrder(create_fast_reading_feature)
    /\ InitWord

SpecReversed == InitReversed /\ [][NextCalt]_vars

(***************************************************************************)
(* Claims about the rule list                                              *)
(***************************************************************************)
\* the emphasis count the claims give for a word of n letters
ClaimB(n) ==
    CASE n <= 3  -> 1
      [] n <= 6  -> 2
      [] n <= 8  -> 3
      [] n <= 11 -> 4
      [] n <= 13 -> 5
      [] n <= 16 -> 6
      [] OTHER   -> 7

\* C1: once the rule list has run over a word of N letters (1..MaxWordLen),
\* exactly the first B(N) glyphs of the word are emphasized and every later
\* glyph is still a base glyph.
C1_PrefixEmphasized ==
    CaltDone =>
        /\ Emphasized = 0..(ClaimB(WordLen) - 1)
        /\ \A k \in ClaimB(WordLen)..(WordLen - 1) : glyphs[k + 2] \in ClassAz
        /\ glyphs[1] = "other" /\ glyphs[Len(glyphs)] = "other"

C1_Witness ==
    /\ CaltDone
    /\ WordLen = 17
    /\ Emphasized = 0..6

\* C2 as stated: exactly one substitution statement fires anywhere in the
\* word, the one of the tier whose length range contains N.
C2_ExactlyOneSubFires ==
    CaltDone =>
        /\ Cardinality(FiredSubs) = 1
        /\ \A f \in FiredSubs : TierOfStmt(f[1]) = TierOfLen(WordLen)

\* C2 amended: the substitution statement of the tier containing N and of
\* every shorter tier fires exactly once, at the offset boldCount-1 of its
\* tier, and no substitution statement of a longer tier fires.
C2_TierAndShorterFireOnce ==
    CaltDone =>
        FiredSubs = { <<2 * t, Tiers[t].boldCount - 1>> :
                         t \in TierOfLen(WordLen)..Len(Tiers) }

C2_Witness ==
    /\ CaltDone
    /\ WordLen = 10
    /\ Cardinality(FiredSubs) = 4

C9_WindowsMatchTiers ==
    /\ Len(rules) = 2 * Len(Tiers)
    /\ \A t \in 1..(Len(Tiers) - 1) : Tiers[t].minLen > Tiers[t + 1].minLen
    /\ \A t \in 1..Len(Tiers) :
        LET ign == rules[2 * t - 1]
            sub == rules[2 * t]
        IN
        /\ ign.kind = "ignore"
        /\ Len(ign.pattern) = Tiers[t].minLen + 1
        /\ sub.kind = "sub"
        /\ Len(sub.pattern) = Tiers[t].minLen
        /\ sub.mark - 1 = Tiers[t].boldCount - 1
        /\ \A k \in 1..Len(ign.pattern) : ClassOf(ign.pattern[k]) \subseteq ClassAll
        /\ \A k \in 1..Len(sub.pattern) : ClassOf(sub.pattern[k]) \subseteq ClassAll

\* C10: with the seven pairs listed shortest tier first, some word length
\* in 1..MaxWordLen ends with an emphasis count other than its tier's.
C10_ReversedOrderBreaks ==
    \E n \in 1..MaxWordLen :
        BoldCount(RunLookup(rules, Word(n), 1)) # ClaimB(n)

C10_Witness ==
    /\ CaltDone
    /\ WordLen = 17
    /\ Cardinality(Emphasized) = 1

(***************************************************************************)
(* add_bold_glyphs                                                         *)
(***************************************************************************)
\* the characters to process: a-z, then A-Z
chars ==
    << "a", "b", "c", "d", "e", "f", "g", "h", "i", "j", "k", "l", "m",
       "n", "o", "p", "q", "r", "s", "t", "u", "v", "w", "x", "y", "z",
       "A", "B", "C", "D", "E", "F", "G", "H", "I", "J", "K", "L", "M",
       "N", "O", "P", "Q", "R", "S", "T", "U", "V", "W", "X", "Y", "Z" >>

Letters == {chars[i] : i \in 1..Len(chars)}

\* the code points of the characters: range(ord('a'), ord('z') + 1), then
\* range(ord('A'), ord('Z') + 1)
CodePoints == [i \in 1..Len(chars) |-> IF i <= 26 THEN 96 + i ELSE 64 + (i - 26)]

OrdTable == [c \in Letters |-> CodePoints[CHOOSE k \in 1..Len(chars) : chars[k] = c]]

ChrTable == [u \in {OrdTable[c] : c \in Letters} |->
                CHOOSE c \in Letters : OrdTable[c] = u]

\* ord(char)
Ord(char) == OrdTable[char]

\* d[key] = value on a dict
Put(d, key, value) ==
    (key :> value) @@ d

\* a check that looks at the regular font's map only
InBothCmaps_regularOnly(unicode_val) ==
    unicode_val \in DOMAIN regular_cmap

\* unicode_val in regular_cmap and unicode_val in bold_cmap
InBothCmaps(unicode_val) ==
    /\ unicode_val \in DOMAIN regular_cmap
    /\ unicode_val \in DOMAIN bold_cmap

\* a variant named like the regular glyph itself
bold_variant_plain(regular_glyph) == regular_glyph

\* f"{regular_glyph}.bold"
bold_variant(regular_glyph) == regular_glyph \o ".bold"

\* glyf[bold_variant] = bold_glyf[bold_glyph]
CopyOutline(gl, variant, bold_glyph) ==
    Put(gl, variant, bold_glyf[bold_glyph])

\* if bold_glyph in bold_hmtx.metrics: hmtx[bold_variant] = bold_hmtx[bold_glyph]
CopyMetrics(hm, variant, bold_glyph) ==
    IF bold_glyph \in DOMAIN bold_hmtx
    THEN Put(hm, variant, bold_hmtx[bold_glyph])
    ELSE hm

\* a count that leaves out the variants the font already had
Count_newOnly(added_count, gl, variant) ==
    IF variant \in DOMAIN gl THEN added_count ELSE added_count + 1

\* added_count += 1  (gl: the glyf table before this letter's variant was stored)
Count(added_count, gl, variant) == added_count + 1

\* the local state of add_bold_glyphs before the loop
LoopStart ==
    [glyf |-> glyf, hmtx |-> hmtx, added_count |-> 0, attempted |-> 0,
     added_for |-> {}, stored |-> {}, raised |-> FALSE]

\* one pass of the loop body, for char
LoopBody(st, char) ==
    LET unicode_val == Ord(char) IN
    IF st.raised THEN st
    ELSE IF ~InBothCmaps(unicode_val)
    THEN [st EXCEPT !.attempted = @ + 1]
    ELSE IF unicode_val \notin DOMAIN regular_cmap \/ unicode_val \notin DOMAIN bold_cmap
    THEN [st EXCEPT !.raised = TRUE]        \* KeyError of a dict subscript
    ELSE
        LET regular_glyph == regular_cmap[unicode_val]
            bold_glyph    == bold_cmap[unicode_val]
            variant       == bold_variant(regular_glyph)
        IN
        IF bold_glyph \in DOMAIN bold_glyf
        THEN [st EXCEPT
                !.glyf = CopyOutline(@, variant, bold_glyph),
                !.hmtx = CopyMetrics(@, variant, bold_glyph),
                !.added_count = Count(@, st.glyf, variant),
                !.attempted = @ + 1,
                !.added_for = @ \cup {char},
                !.stored = @ \cup {[id |-> variant,
                                    outline |-> bold_glyf[bold_glyph],
                                    metric |-> IF bold_glyph \in DOMAIN bold_hmtx
                                               THEN <<bold_hmtx[bold_glyph]>>
                                               ELSE <<>>]}]
        ELSE [st EXCEPT !.attempted = @ + 1]

\* for char in chars: ... , from the i-th character on (each pass is bound
\* to its value before the next one starts)
RECURSIVE Loop(_, _)
Loop(st, i) ==
    IF i > Len(chars) THEN st
    ELSE CHOOSE end \in {Loop(next, i + 1) : next \in {LoopBody(st, chars[i])}} : TRUE

\* the fonts a run starts from: the first MaxVary letters may be missing from
\* either character map, their bold glyphs may lack an outline or a metric,
\* the second letter may share the first letter's glyph in the regular font,
\* and the regular font may already hold the first letter's variant
VaryLetters == {chars[i] : i \in 1..MaxVary}

\* the outline or metric a font holds for one of its glyphs
Glyph(font, name) == font \o ":" \o name

FontsWith(regMissing, boldMissing, noOutline, noMetric, shared, already) ==
    /\ regular_cmap =
          [u \in {Ord(c) : c \in Letters \ regMissing} |->
              LET c == ChrTable[u] IN
              IF shared /\ c = chars[2] THEN chars[1] ELSE c]
    /\ bold_cmap =
          [u \in {Ord(c) : c \in Letters \ boldMissing} |-> ChrTable[u]]
    /\ glyf = [g \in Letters \cup (IF already THEN {bold_variant(chars[1])} ELSE {})
                 |-> Glyph("regular", g)]
    /\ hmtx = [g \in Letters \cup (IF already THEN {bold_variant(chars[1])} ELSE {})
                 |-> Glyph("regular", g)]
    /\ bold_glyf = [g \in Letters \ noOutline |-> Glyph("bold", g)]
    /\ bold_hmtx = [g \in Letters \ noMetric |-> Glyph("bold", g)]
    /\ loaded = [glyf |-> glyf, hmtx |-> hmtx,
                 bold_glyf |-> bold_glyf, bold_hmtx |-> bold_hmtx]
    /\ calls = <<>>

InitFonts ==
    \E status \in [VaryLetters ->
                      {"ok", "no_regular", "no_bold", "neither",
                       "no_outline", "no_metric", "no_outline_no_metric"}],
       shared \in BOOLEAN, already \in BOOLEAN :
        FontsWith({c \in VaryLetters : status[c] \in {"no_regular", "neither"}},
                  {c \in VaryLetters : status[c] \in {"no_bold", "neither"}},
                  {c \in VaryLetters :
                      status[c] \in {"no_outline", "no_outline_no_metric"}},
                  {c \in VaryLetters :
                      status[c] \in {"no_metric", "no_outline_no_metric"}},
                  shared, already)

\* no word is being shaped
NoWord ==
    /\ script = "make_fast_font"
    /\ rules = <<>>
    /\ glyphs = <<>>
    /\ pos = 1
    /\ matched = <<>>

InitGlyphs == InitFonts /\ NoWord /\ NoMain

\* add_bold_glyphs(font, bold_font), from its first line to its return
AddBoldGlyphsCall ==
       \E end \in {Loop(LoopStart, 1)} :
        /\ glyf' = end.glyf
        /\ hmtx' = end.hmtx
        /\ calls' = Append(calls,
                 [ret |-> end.added_count, attempted |-> end.attempted,
                  added_for |-> end.added_for, stored |-> end.stored,
                  raised |-> end.raised,
                  glyf |-> end.glyf, hmtx |-> end.hmtx])
    /\ UNCHANGED <<regular_cmap, bold_cmap, bold_glyf, bold_hmtx, loaded>>

\* a script that calls add_bold_glyphs on the pair of fonts it holds
add_bold_glyphs ==
    /\ pc = "idle"
    /\ Len(calls) < MaxRuns
    /\ AddBoldGlyphsCall
    /\ UNCHANGED <<caltVars, mainVars>>

NextGlyphs == add_bold_glyphs

SpecGlyphs == InitGlyphs /\ [][NextGlyphs]_vars

(***************************************************************************)
(* Name records                                                            *)
(***************************************************************************)
\* sub in s, for Python strings
Contains(s, sub) ==
    \E i \in 1..(Len(s) - Len(sub) + 1) : SubSeq(s, i, i + Len(sub) - 1) = sub

\* the loop of make_fast_font.main without its test for 'Fast'
mff_update_names_always(ns) ==
    [i \in 1..Len(ns) |->
        IF ns[i].nameID \in {1, 4}
        THEN [ns[i] EXCEPT !.string = @ \o " Fast"]
        ELSE ns[i]]

\* make_fast_font.main: for record in name_table.names: ...
mff_update_names(ns) ==
    [i \in 1..Len(ns) |->
        IF ns[i].nameID \in {1, 4} /\ ~Contains(ns[i].string, "Fast")
        THEN [ns[i] EXCEPT !.string = @ \o " Fast"]
        ELSE ns[i]]

\* generate_fast_variant / generate_dotted_variant: for name_record in name_table.names: ...
gf_update_names(ns, variant_name) ==
    [i \in 1..Len(ns) |->
        IF ns[i].nameID = 1
        THEN [ns[i] EXCEPT !.string = @ \o " " \o variant_name]
        ELSE IF ns[i].nameID = 4
        THEN [ns[i] EXCEPT !.string = @ \o " " \o variant_name]
        ELSE ns[i]]

\* the name strings a font file may hold: up to n pieces, each "Fa" or "st"
RECURSIVE NameStrings(_)
NameStrings(n) ==
    IF n = 0 THEN {""}
    ELSE LET shorter == NameStrings(n - 1) IN
         shorter \cup {s \o c : s \in shorter, c \in {"Fa", "st"}}

\* family (1), subfamily (2) and full name (4) records
NameRecords == [nameID : {1, 2, 4}, string : NameStrings(MaxNameChunks)]

InitNames ==
    /\ \/ has_name = TRUE /\ base_names \in [1..2 -> NameRecords]
       \/ has_name = FALSE /\ base_names = <<>>
    /\ names = <<>>
    /\ saved = <<>>
    /\ out = {}
    /\ exit_status = -1
    /\ feature_result = "none"

\* the except clause of main(): print the error, sys.exit(1)
Fail ==
    /\ out' = out \cup {"Error"}
    /\ exit_status' = 1
    /\ pc' = "exited"

(***************************************************************************)
(* make_fast_font.main                                                     *)
(***************************************************************************)
InitMakeFastFont ==
    /\ script = "make_fast_font"
    /\ pc = "mff_load"
    /\ args = NoArgs
    /\ \E boldMissing \in {{}, Letters} :
          FontsWith({}, boldMissing, {}, {}, FALSE, FALSE)

\* font = TTFont(args.regular); bold_font = TTFont(args.bold)
MFF_Load ==
    /\ pc = "mff_load"
    /\ \/ /\ names' = base_names
          /\ pc' = "mff_bold"
          /\ UNCHANGED <<out, exit_status>>
       \/ Fail /\ UNCHANGED names
    /\ UNCHANGED <<args, has_name, base_names, saved, feature_result, fontVars, caltVars>>

\* added = add_bold_glyphs(font, bold_font); the warning when nothing was added
MFF_AddBold ==
    /\ pc = "mff_bold"
    /\ AddBoldGlyphsCall
    /\ out' = IF calls'[Len(calls')].ret = 0
              THEN out \cup {"Warning: No bold glyphs were added"}
              ELSE out
    /\ pc' = "mff_features"
    /\ UNCHANGED <<args, has_name, names, base_names, saved, exit_status,
                   feature_result, caltVars>>

\* addOpenTypeFeatures(font, f) inside its own try/except/finally
MFF_AddFeatures ==
    /\ pc = "mff_features"
    /\ \/ /\ rules' = make_fast_font_features
          /\ feature_result' = "added"
          /\ out' = out \cup {"Fast reading features added"}
       \/ /\ rules' = rules
          /\ feature_result' = "failed"
          /\ out' = out \cup {"Warning: Could not add features"}
    /\ pc' = "mff_names"
    /\ UNCHANGED <<script, glyphs, pos, matched, args, has_name, names, base_names,
                   saved, exit_status, fontVars>>

\* if 'name' in font: append the suffix to the family and full names
MFF_UpdateNames ==
    /\ pc = "mff_names"
    /\ names' = IF has_name THEN mff_update_names(names) ELSE names
    /\ pc' = "mff_save"
    /\ UNCHANGED <<args, has_name, base_names, saved, out, exit_status,
                   feature_result, fontVars, caltVars>>

\* font.save(output)
MFF_Save ==
    /\ pc = "mff_save"
    /\ \/ /\ saved' = Put(saved, "Fast",
                          [names |-> names, features |-> feature_result = "added"])
          /\ pc' = "mff_close"
          /\ UNCHANGED <<out, exit_status>>
       \/ Fail /\ UNCHANGED saved
    /\ UNCHANGED <<args, has_name, names, base_names, feature_result, fontVars, caltVars>>

\* font.close(); bold_font.close(); the success message; the process ends
MFF_Finish ==
    /\ pc = "mff_close"
    /\ out' = out \cup {"Fast Font created successfully!"}
    /\ exit_status' = 0
    /\ pc' = "exited"
    /\ UNCHANGED <<args, has_name, names, base_names, saved, feature_result,
                   fontVars, caltVars>>

(***************************************************************************)
(* generate_fonts.main                                                     *)
(***************************************************************************)
InitGenerateFonts ==
    /\ script = "generate_fonts"
    /\ pc = "gf_construct"
    /\ args \in [info : BOOLEAN, fast : BOOLEAN, dotted : BOOLEAN, all : BOOLEAN]
    /\ NoFonts

\* generator = FastFontGenerator(args.font_path)
GF_Construct ==
    /\ pc = "gf_construct"
    /\ \/ /\ pc' = IF args.info THEN "gf_info" ELSE "gf_mkdir"
          /\ UNCHANGED <<out, exit_status>>
       \/ Fail
    /\ UNCHANGED <<args, has_name, names, base_names, saved, feature_result,
                   fontVars, caltVars>>

\* if args.info: print the font information and return
GF_Info ==
    /\ pc = "gf_info"
    /\ out' = out \cup {"Font Information:"}
    /\ exit_status' = 0
    /\ pc' = "exited"
    /\ UNCHANGED <<args, has_name, names, base_names, saved, feature_result,
                   fontVars, caltVars>>

\* output_dir.mkdir(exist_ok=True)
GF_MakeDir ==
    /\ pc = "gf_mkdir"
    /\ \/ /\ pc' = "gf_fast"
          /\ UNCHANGED <<out, exit_status>>
       \/ Fail
    /\ UNCHANGED <<args, has_name, names, base_names, saved, feature_result,
                   fontVars, caltVars>>

\* if args.all or args.fast: generator.generate_fast_variant(output_path)
GF_FastVariant ==
    /\ pc = "gf_fast"
    /\ \/ /\ args.all \/ args.fast
          /\ \/ \* new_font = TTFont(...) raises: main's except clause
                /\ Fail
                /\ UNCHANGED <<rules, names, saved, feature_result>>
             \/ \* Parser(...).parse() or addOpenTypeFeatures raises
                /\ feature_result' = "failed"
                /\ out' = out \cup {"Error generating Fast variant"}
                /\ names' = base_names
                /\ pc' = "gf_dotted"
                /\ UNCHANGED <<rules, saved, exit_status>>
             \/ \* the features are added; new_font['name'] raises KeyError
                /\ ~has_name
                /\ rules' = create_fast_reading_feature
                /\ feature_result' = "added"
                /\ out' = out \cup {"Error generating Fast variant"}
                /\ names' = base_names
                /\ pc' = "gf_dotted"
                /\ UNCHANGED <<saved, exit_status>>
             \/ \* the features are added, the names updated, the font saved or not
                /\ has_name
                /\ rules' = create_fast_reading_feature
                /\ feature_result' = "added"
                /\ names' = gf_update_names(base_names, "Fast")
                /\ \/ /\ saved' = Put(saved, "Fast",
                                      [names |-> names', features |-> TRUE])
                      /\ out' = out \cup {"Generated: Fast"}
                   \/ /\ saved' = saved
                      /\ out' = out \cup {"Error generating Fast variant"}
                /\ pc' = "gf_dotted"
                /\ UNCHANGED exit_status
       \/ /\ ~(args.all \/ args.fast)
          /\ pc' = "gf_dotted"
          /\ UNCHANGED <<rules, names, saved, out, exit_status, feature_result>>
    /\ UNCHANGED <<script, glyphs, pos, matched, args, has_name, base_names, fontVars>>

\* if args.all or args.dotted: generator.generate_dotted_variant(output_path)
GF_DottedVariant ==
    /\ pc = "gf_dotted"
    /\ \/ /\ args.all \/ args.dotted
          /\ \/ \* TTFont(...), new_font['name'] or new_font.save raises
                /\ Fail
                /\ UNCHANGED <<names, saved>>
             \/ /\ has_name
                /\ names' = gf_update_names(base_names, "Dotted")
                /\ saved' = Put(saved, "Dotted",
                                [names |-> names', features |-> FALSE])
                /\ out' = out \cup {"Generated: Dotted"}
                /\ pc' = "gf_tail"
                /\ UNCHANGED exit_status
       \/ /\ ~(args.all \/ args.dotted)
          /\ pc' = "gf_tail"
          /\ UNCHANGED <<names, saved, out, exit_status>>
    /\ UNCHANGED <<args, has_name, base_names, feature_result, fontVars, caltVars>>

\* the hint when no variant was asked for; main returns
GF_Finish ==
    /\ pc = "gf_tail"
    /\ out' = IF ~(args.fast \/ args.dotted \/ args.all \/ args.info)
              THEN out \cup {"No variants specified. Use --help for options."}
              ELSE out
    /\ exit_status' = 0
    /\ pc' = "exited"
    /\ UNCHANGED <<args, has_name, names, base_names, saved, feature_result,
                   fontVars, caltVars>>

InitMain ==
    /\ InitNames
    /\ rules = <<>> /\ glyphs = <<>> /\ pos = 1 /\ matched = <<>>
    /\ InitMakeFastFont \/ InitGenerateFonts

NextMain ==
    \/ MFF_Load \/ MFF_AddBold \/ MFF_AddFeatures \/ MFF_UpdateNames
    \/ MFF_Save \/ MFF_Finish
    \/ GF_Construct \/ GF_Info \/ GF_MakeDir \/ GF_FastVariant
    \/ GF_DottedVariant \/ GF_Finish

SpecMain == InitMain /\ [][NextMain]_vars

(***************************************************************************)
(* Claims about the pipelines                                              *)
(***************************************************************************)
SuccessMessages ==
    {"Fast Font created successfully!", "Generated: Fast", "Generated: Dotted",
     "Fast reading features added"}

\* C7: in every run in which adding the OpenType features fails, no output
\* font is saved, no success message is reported and the process ends with a
\* failure status.
C7_FeatureFailureAborts ==
    (pc = "exited" /\ feature_result = "failed") =>
        /\ DOMAIN saved = {}
        /\ out \cap SuccessMessages = {}
        /\ exit_status = 1

\* C8 as stated: in every saved Fast font each family (1) and full name (4)
\* record holds its prior string followed by " Fast", whatever that string
\* was, and every other record is unchanged.
C8_SuffixAlwaysAppended ==
    "Fast" \in DOMAIN saved =>
        /\ Len(saved["Fast"].names) = Len(base_names)
        /\ \A i \in 1..Len(base_names) :
              saved["Fast"].names[i] =
                 IF base_names[i].nameID \in {1, 4}
                 THEN [base_names[i] EXCEPT !.string = @ \o " Fast"]
                 ELSE base_names[i]

\* C8 amended: generate_fast_variant appends " Fast" to every family and
\* full name record; make_fast_font.main appends it to those of them whose
\* string does not already contain "Fast" and leaves the others as they
\* were; records of any other kind are unchanged in both.
C8_SuffixUnlessPresent ==
    "Fast" \in DOMAIN saved =>
        /\ Len(saved["Fast"].names) = Len(base_names)
        /\ \A i \in 1..Len(base_names) :
              saved["Fast"].names[i] =
                 IF /\ base_names[i].nameID \in {1, 4}
                    /\ \/ script = "generate_fonts"
                       \/ \A k \in 1..(Len(base_names[i].string) - 3) :
                             SubSeq(base_names[i].string, k, k + 3) # "Fast"
                 THEN [base_names[i] EXCEPT !.string = @ \o " Fast"]
                 ELSE base_names[i]

C8_Witness ==
    /\ script = "make_fast_font"
    /\ "Fast" \in DOMAIN saved
    /\ base_names = <<[nameID |-> 1, string |-> "Fast"], [nameID |-> 4, string |-> "stFa"]>>
    /\ saved["Fast"].names =
          <<[nameID |-> 1, string |-> "Fast"], [nameID |-> 4, string |-> "stFa Fast"]>>

(***************************************************************************)
(* Claims about add_bold_glyphs                                            *)
(***************************************************************************)
\* the letters present in both character maps whose bold glyph has an outline
Eligible ==
    {c \in Letters :
        /\ Ord(c) \in DOMAIN regular_cmap
        /\ Ord(c) \in DOMAIN bold_cmap
        /\ bold_cmap[Ord(c)] \in DOMAIN bold_glyf}

\* the base font's tables as call k found them
Before(k) == IF k = 1 THEN loaded ELSE calls[k - 1]

\* the variant names of a set of letters
VariantsOf(cs) == {regular_cmap[Ord(c)] \o ".bold" : c \in cs}

\* C4: a call never raises for a letter absent from either map, goes through
\* all 52 letters, returns the number of letters present in both maps whose
\* bold glyph has an outline, and adds a variant for exactly those letters.
C4_PartialMissTolerated ==
    \A k \in 1..Len(calls) :
        /\ ~calls[k].raised
        /\ calls[k].attempted = Len(chars)
        /\ Len(chars) = 52
        /\ calls[k].ret = Cardinality(Eligible)
        /\ calls[k].added_for = Eligible
        /\ {e.id : e \in calls[k].stored} = VariantsOf(Eligible)
        /\ DOMAIN calls[k].glyf = (DOMAIN Before(k).glyf) \cup VariantsOf(Eligible)

C4_Witness ==
    /\ Len(calls) = 1
    /\ Cardinality(DOMAIN regular_cmap) = 52
    /\ Cardinality(DOMAIN bold_cmap) = 50
    /\ calls[1].ret = 50
    /\ calls[1].attempted = 52
    /\ "a.bold" \notin DOMAIN glyf
    /\ "c.bold" \in DOMAIN glyf

\* C5 as stated: after a call the outline and metric tables of the base font
\* and of the bold font hold exactly what they held before it.
C5_NoSourceMutated ==
    Len(calls) >= 1 =>
        /\ glyf = loaded.glyf
        /\ hmtx = loaded.hmtx
        /\ bold_glyf = loaded.bold_glyf
        /\ bold_hmtx = loaded.bold_hmtx

\* C5 amended: a call leaves the bold font's tables as they were and writes
\* the base font's own tables in place, but only under the ".bold" variant
\* names of the letters it adds: every other entry of the base font keeps
\* its value and no entry is removed.
C5_OnlyVariantsWritten ==
    Len(calls) >= 1 =>
        /\ bold_glyf = loaded.bold_glyf
        /\ bold_hmtx = loaded.bold_hmtx
        /\ DOMAIN glyf = (DOMAIN loaded.glyf) \cup VariantsOf(Eligible)
        /\ DOMAIN loaded.hmtx \subseteq DOMAIN hmtx
        /\ DOMAIN hmtx \subseteq (DOMAIN loaded.hmtx) \cup VariantsOf(Eligible)
        /\ \A g \in (DOMAIN loaded.glyf) \ VariantsOf(Eligible) :
              glyf[g] = loaded.glyf[g]
        /\ \A g \in (DOMAIN loaded.hmtx) \ VariantsOf(Eligible) :
              hmtx[g] = loaded.hmtx[g]

C5_Witness ==
    /\ Len(calls) = 1
    /\ calls[1].ret = 52
    /\ glyf # loaded.glyf
    /\ hmtx # loaded.hmtx
    /\ "a.bold" \in DOMAIN loaded.glyf
    /\ glyf["a.bold"] # loaded.glyf["a.bold"]

\* C6: a second call on the same fonts, the base font being as the first call
\* left it, derives the same variant identifiers, stores the same outline and
\* metric under each, returns the same count and leaves the base font's
\* tables as they were after the first call.
C6_SecondRunSame ==
    \A k \in 2..Len(calls) :
        /\ {e.id : e \in calls[k].stored} = {e.id : e \in calls[k - 1].stored}
        /\ calls[k].stored = calls[k - 1].stored
        /\ calls[k].ret = calls[k - 1].ret
        /\ calls[k].glyf = calls[k - 1].glyf
        /\ calls[k].hmtx = calls[k - 1].hmtx
        /\ glyf = calls[k].glyf /\ hmtx = calls[k].hmtx

C6_Witness ==
    /\ Len(calls) = 2
    /\ calls[1].ret = 51
    /\ calls[2].ret = 51
    /\ calls[1].glyf # loaded.glyf
    /\ glyf = calls[1].glyf

\* C11: after a call, for each letter counted in the returned total, the
\* base font holds under "<base glyph>.bold" both the outline and the metric
\* of that letter's glyph in the bold font; no counted variant lacks a metric
\* entry or carries a metric that is not the bold font's.
C11_CountedVariantsComplete ==
    \A k \in 1..Len(calls) :
        /\ calls[k].ret = Cardinality(calls[k].added_for)
        /\ \A c \in calls[k].added_for :
              LET variant    == regular_cmap[Ord(c)] \o ".bold"
                  bold_glyph == bold_cmap[Ord(c)]
              IN
              /\ variant \in DOMAIN calls[k].glyf
              /\ calls[k].glyf[variant] = bold_glyf[bold_glyph]
              /\ bold_glyph \in DOMAIN bold_hmtx
              /\ variant \in DOMAIN calls[k].hmtx
              /\ calls[k].hmtx[variant] = bold_hmtx[bold_glyph]

====
